---- MODULE Spec2Model ----
(***************************************************************************)
(* Local-filesystem storage adapter (src/index.ts): signed upload URLs,    *)
(* the PUT / GET handlers registered by setupLifecycle, the two Level      *)
(* stores (metadataDb, candidatesForDeletionDb), markKeyForDeletion,       *)
(* markKeyForNotDeletion and the setInterval sweep.                        *)
(*                                                                         *)
(* Strings are sequences of character codes (ASCII), so that string        *)
(* concatenation, decimal formatting, parseInt and JSON.stringify are      *)
(* computed the way the code computes them.  Times are milliseconds, as    *)
(* Date.now() gives them.  Every `await` of a handler is a separate step;  *)
(* the synchronous code between two awaits is one step.                    *)
(***************************************************************************)
EXTENDS Integers, Sequences, FiniteSets, TLC

\* ------------------------------------------------------------------ bounds

\* How many times the clock may advance in one behaviour.
MaxTicks == 2

\* How many times the clock may advance in the signing scenario.
MaxSignTicks == 3

\* Number of PUT requests that may be in progress at once.
NumPuts == 2

\* How many requests and adapter calls (PUT, GET, markKeyForDeletion,
\* markKeyForNotDeletion) the clients make in one behaviour.
MaxOps == 3

\* How many requests the clients make in one behaviour of the request
\* scenario.
MaxHttpOps == 2

\* ------------------------------------------------------------ string tools

\* "0".."9"
IsDigit(c) == c >= 48 /\ c <= 57

RECURSIVE DigitsOf(_)
DigitsOf(n) ==
    IF n < 10 THEN <<48 + n>> ELSE DigitsOf(n \div 10) \o <<48 + (n % 10)>>

\* Number.prototype.toString() of an integer, or of NaN.  A number is a
\* record [nan, val]; NaN prints as "NaN".
NumToString(x) ==
    IF x.nan THEN <<78, 97, 78>>
    ELSE IF x.val < 0 THEN <<45>> \o DigitsOf(0 - x.val)
    ELSE DigitsOf(x.val)

Num(n) == [nan |-> FALSE, val |-> n]
NaN == [nan |-> TRUE, val |-> 0]

\* The value of the longest prefix of s made of digits (acc so far).
RECURSIVE DigitsValue(_, _)
DigitsValue(s, acc) ==
    IF s = <<>> \/ ~IsDigit(Head(s)) THEN acc
    ELSE DigitsValue(Tail(s), acc * 10 + (Head(s) - 48))

\* parseInt(s): optional sign, then the leading decimal digits; NaN when
\* there is no digit.  Trailing text is ignored.
ParseInt(s) ==
    LET neg  == s # <<>> /\ Head(s) = 45
        body == IF s # <<>> /\ Head(s) \in {43, 45} THEN Tail(s) ELSE s
    IN  IF body = <<>> \/ ~IsDigit(Head(body)) THEN NaN
        ELSE Num(IF neg THEN 0 - DigitsValue(body, 0) ELSE DigitsValue(body, 0))

\* JSON string escaping of the two characters that need it here: " and \.
RECURSIVE JsonEscape(_)
JsonEscape(s) ==
    IF s = <<>> THEN <<>>
    ELSE (IF Head(s) \in {34, 92} THEN <<92, Head(s)>> ELSE <<Head(s)>>)
         \o JsonEscape(Tail(s))

\* The payload of a signed URL is a sequence of <<name, value>> pairs:
\* <<>> is {} and << <<"contentType", ct>> >> is {contentType: ct}.
ContentTypeName == <<99, 111, 110, 116, 101, 110, 116, 84, 121, 112, 101>>

PayloadOf(contentType) == << <<ContentTypeName, contentType>> >>

RECURSIVE JsonMembers(_)
JsonMembers(payload) ==
    IF payload = <<>> THEN <<>>
    ELSE <<34>> \o JsonEscape(payload[1][1]) \o <<34, 58, 34>>
         \o JsonEscape(payload[1][2]) \o <<34>>
         \o (IF Len(payload) > 1 THEN <<44>> ELSE <<>>)
         \o JsonMembers(Tail(payload))

\* JSON.stringify(payload): {"name":"value",...}
JsonStringify(payload) == <<123>> \o JsonMembers(payload) \o <<125>>

\* ------------------------------------------------------------------ signing

\* The adapter's route prefix, "/u" (expressBase).
expressBase == <<47, 117>>

\* `${this.expressBase}/${key}`
UrlPath(key) == expressBase \o <<47>> \o key

\* The bytes the HMAC is fed: three update() calls with no separator.
MacInput(urlPath, expires, payload) ==
    urlPath \o NumToString(expires) \o JsonStringify(payload)

\* sign(): HMAC-SHA256 under the signing secret.  The MAC is modelled as
\* injective on its input, so a signature is the input it was computed on.
sign(urlPath, expires, payload) == MacInput(urlPath, expires, payload)

\* presignUrl(): expires = floor(now / 1000) + expiresIn, and the URL with
\* the payload fields, expires and signature as query parameters.
presignUrl(urlPath, expiresIn, payload, nowMs) ==
    LET expires == Num((nowMs \div 1000) + expiresIn)
    IN  [path      |-> urlPath,
         query     |-> payload,
         expires   |-> NumToString(expires),
         signature |-> sign(urlPath, expires, payload)]

getUploadSignedUrl(key, contentType, expiresIn, nowMs) ==
    presignUrl(UrlPath(key), expiresIn, PayloadOf(contentType), nowMs)

\* getDownloadUrl(): the route's path in public mode; in private mode
\* presignUrl is given the key itself, not urlPath, and an empty payload.
\* The public URL has no query: its expires and signature are empty.
getDownloadUrl(key, expiresIn, nowMs, optionsMode) ==
    LET urlPath == UrlPath(key)
    IN  IF optionsMode = "public"
        THEN [path |-> urlPath, query |-> <<>>, expires |-> <<>>,
              signature |-> <<>>]
        ELSE presignUrl(key, expiresIn, <<>>, nowMs)

\* ------------------------------------------------------- path safety guard

\* path.resolve(this.options.fileSystemFolder): the storage root, "/r".
basePath == <<47, 114>>

StartsWith(s, prefix) ==
    Len(s) >= Len(prefix) /\ SubSeq(s, 1, Len(prefix)) = prefix

\* s.split("/")
RECURSIVE SplitSlash(_, _)
SplitSlash(s, cur) ==
    IF s = <<>> THEN <<cur>>
    ELSE IF Head(s) = 47 THEN <<cur>> \o SplitSlash(Tail(s), <<>>)
    ELSE SplitSlash(Tail(s), Append(cur, Head(s)))

\* Path normalisation: "" and "." are dropped, ".." removes the last
\* segment (and stays at "/" when there is none).
RECURSIVE NormalizeSegs(_, _)
NormalizeSegs(segs, stack) ==
    IF segs = <<>> THEN stack
    ELSE LET seg == Head(segs)
         IN  IF seg = <<>> \/ seg = <<46>> THEN NormalizeSegs(Tail(segs), stack)
             ELSE IF seg = <<46, 46>>
                  THEN NormalizeSegs(Tail(segs),
                         IF stack = <<>> THEN stack
                         ELSE SubSeq(stack, 1, Len(stack) - 1))
             ELSE NormalizeSegs(Tail(segs), Append(stack, seg))

RECURSIVE JoinSegs(_)
JoinSegs(segs) ==
    IF segs = <<>> THEN <<>> ELSE <<47>> \o Head(segs) \o JoinSegs(Tail(segs))

\* path.resolve(fileSystemFolder, key): an absolute key replaces the root.
PathResolve(key) ==
    LET from == IF key # <<>> /\ Head(key) = 47 THEN <<>> ELSE basePath
        segs == NormalizeSegs(SplitSlash(from \o <<47>> \o key, <<>>), <<>>)
    IN  IF segs = <<>> THEN <<47>> ELSE JoinSegs(segs)

\* filePath.startsWith(basePath + path.sep)
InsideRoot(filePath) == StartsWith(filePath, basePath \o <<47>>)

\* ----------------------------------------------- PUT handler, first part

\* Line 235 with >= for >: the URL is refused already at its expiry time.
SignatureExpired_AtExpiry(nowMs, expires) ==
    ~expires.nan /\ nowMs >= expires.val * 1000

\* Line 235: Date.now() / 1000 > expires (false when expires is NaN).
SignatureExpired(nowMs, expires) ==
    ~expires.nan /\ nowMs > expires.val * 1000

\* The checks with the signature verified before the path guard.
PutChecks_SignatureFirst(req, nowMs) ==
    LET contentType == req.contentType
        filePath    == PathResolve(req.key)
        expires     == ParseInt(req.expires)
        expectedSignature ==
            sign(UrlPath(req.key), expires, PayloadOf(contentType))
    IN  IF contentType = <<>> THEN 400
        ELSE IF req.signature # expectedSignature THEN 403
        ELSE IF SignatureExpired(nowMs, expires) THEN 403
        ELSE IF ~InsideRoot(filePath) THEN 400
        ELSE IF contentType # req.contentType THEN 400
        ELSE 0

\* The synchronous part of the PUT handler, up to the fs.access probe.
\* req = [key, contentType (the content-type header, <<>> when absent),
\*        expires (query string), signature (query string)].
\* The result is the status of the rejection, or 0 when the handler goes on.
PutChecks(req, nowMs) ==
    LET contentType == req.contentType
        filePath    == PathResolve(req.key)
        expires     == ParseInt(req.expires)
        expectedSignature ==
            sign(UrlPath(req.key), expires, PayloadOf(contentType))
    IN  IF contentType = <<>> THEN 400
        ELSE IF ~InsideRoot(filePath) THEN 400
        ELSE IF req.signature # expectedSignature THEN 403
        ELSE IF SignatureExpired(nowMs, expires) THEN 403
        ELSE IF contentType # req.contentType THEN 400
        ELSE 0

\* ------------------------------------------------------------------- state

\* Keys that requests name: "a", "b", and "../b", which is outside the root.
KeyA == <<97>>
KeyB == <<98>>
KeyOutside == <<46, 46, 47, 98>>
RequestKeys == {KeyA, KeyB, KeyOutside}

\* "a1": a key that ends in a digit (signing scenario).
KeyA1 == <<97, 49>>
SignKeys == {KeyA, KeyA1}

\* The keys whose file is inside the root: only these reach the stores.
Keys == {k \in RequestKeys : InsideRoot(PathResolve(k))}
StoreKeys == {k \in RequestKeys \cup SignKeys : InsideRoot(PathResolve(k))}

\* Content types: "p" and "t"; <<>> is a request without the header.
ContentTypes == {<<112>>, <<116>>}

\* The uploads the adapter's user asks URLs for: "a" is uploaded as "p"
\* and "b" as "t".
UploadType(key) == IF key = KeyA THEN <<112>> ELSE <<116>>

\* The size, in bytes, of the body sent with each content type.
BodySize(contentType) == IF contentType = <<112>> THEN 1 ELSE 2

\* expiresIn = 3600: the default of getUploadSignedUrl.
DefaultExpiresIn == 3600

\* The retention window of the sweep, in milliseconds.
RetentionMs == 24 * 60 * 60 * 1000

Puts == 1 .. NumPuts

\* markKeyForDeletion invocations: one per PUT handler (its finish callback
\* calls it) and one for a call through the adapter API.
ApiMark == NumPuts + 1
Marks == Puts \cup {ApiMark}

VARIABLES
    now,                      \* Date.now(), in milliseconds
    ticks,                    \* how many times the clock has advanced
    levelGetRejects,          \* Level's get() on a missing key: rejects
                              \* (TRUE) or resolves to undefined (FALSE)
    disk,                     \* the file at each key's resolved path
    metadataDb,               \* key -> JSON text of the metadata record
    candidatesForDeletionDb,  \* key -> stored createdAt (a string)
    put,                      \* the PUT handlers
    mark,                     \* the markKeyForDeletion invocations
    lastPut,                  \* the latest answer of a PUT handler
    get,                      \* the GET handler
    sweep,                    \* the setInterval callback
    used,                     \* how many requests and calls were made
    client,                   \* the signed URL a client holds and the PUT
                              \* it made of it (signing scenario)
    mode,                     \* options.mode: "public" or "private"
    head,                     \* the HEAD handler
    download,                 \* the URL getDownloadUrl returned and the
                              \* request made of it (request scenario)
    registredPrexises,        \* the static list of claimed adminServeBaseUrls
    lifecycle,                \* each adapter instance's setupLifecycle call
    hist                      \* what has been observed (for the properties)

vars == <<now, ticks, levelGetRejects, disk, metadataDb,
          candidatesForDeletionDb, put, lastPut, mark, get, sweep, used,
          client, mode, head, download, registredPrexises, lifecycle,
          hist>>

NoFile == [exists |-> FALSE, size |-> 0]

\* Level stores a value under a key: the key is added or overwritten.
LevelPut(db, key, value) ==
    [k \in DOMAIN db \cup {key} |-> IF k = key THEN value ELSE db[k]]

\* Level's del: removing a missing key is not an error.
LevelDel(db, key) == [k \in DOMAIN db \ {key} |-> db[k]]

EmptyDb == [k \in {} |-> <<>>]

\* The metadata record.  JSON.stringify and JSON.parse of this record are
\* inverse to each other, so the record stands for its JSON text.
Metadata(contentType, createdAt, size) ==
    [contentType |-> contentType, createdAt |-> createdAt, size |-> size]

\* Unary plus on a stored string: the number it spells, NaN otherwise.
RECURSIVE AllDigits(_)
AllDigits(s) == s = <<>> \/ (IsDigit(Head(s)) /\ AllDigits(Tail(s)))

ToNumber(s) ==
    IF s = <<>> THEN Num(0)
    ELSE IF AllDigits(s) THEN Num(DigitsValue(s, 0))
    ELSE NaN

IdlePut ==
    [pc |-> "idle", key |-> <<>>, contentType |-> <<>>, size |-> 0,
     late |-> FALSE, detached |-> FALSE, metaPut |-> <<>>]

NoAnswer == [key |-> <<>>, status |-> 0, late |-> FALSE]

Answer(key, status, late) == [key |-> key, status |-> status, late |-> late]

IdleMark == [pc |-> "idle", key |-> <<>>, createdAt |-> 0, result |-> "none"]

IdleGet ==
    [pc |-> "idle", key |-> <<>>, status |-> 0, failed |-> FALSE,
     late |-> FALSE, contentType |-> <<>>, contentLength |-> 0]

IdleSweep == [pc |-> "idle", now |-> 0, keys |-> <<>>]

NoClient == [state |-> "none"]

Modes == {"public", "private"}

\* status = 0: no response has been sent.
IdleHead ==
    [pc |-> "idle", key |-> <<>>, status |-> 0, failed |-> FALSE,
     contentType |-> <<>>, contentLength |-> 0]

NoDownload == [state |-> "none"]

\* okCount[k]: PUTs of k answered 200 since k's file was last unlinked
\*   (at most 2 are counted);  lastOk[k]: what the latest of them sent;
\* retained[k]: markKeyForNotDeletion(k) ended after such a 200 and no
\*   markKeyForDeletion(k) was called since;
\* everRetained[k]: markKeyForNotDeletion(k) was called at some time;
\* guarded: the keys that were retained when the current (or latest) sweep
\*   started and have not been marked for deletion since;
\* due: the keys the current (or latest) sweep enumerated that were then
\*   uploaded, never retained, on disk with a metadata record, and expired;
\* swept: the keys whose file and metadata that sweep has deleted.
InitHist ==
    [okCount      |-> [k \in StoreKeys |-> 0],
     lastOk       |-> [k \in StoreKeys |-> [contentType |-> <<>>, size |-> 0]],
     retained     |-> [k \in StoreKeys |-> FALSE],
     everRetained |-> [k \in StoreKeys |-> FALSE],
     due          |-> {},
     swept        |-> {},
     guarded      |-> {}]

\* The state after the constructor and setupLifecycle, whatever the mode.
InitStore ==
    /\ now = 0
    /\ ticks = 0
    /\ levelGetRejects \in BOOLEAN
    /\ disk = [f \in {PathResolve(k) : k \in StoreKeys} |-> NoFile]
    /\ metadataDb = EmptyDb
    /\ candidatesForDeletionDb = EmptyDb
    /\ put = [p \in Puts |-> IdlePut]
    /\ lastPut = NoAnswer
    /\ mark = [m \in Marks |-> IdleMark]
    /\ get = IdleGet
    /\ sweep = IdleSweep
    /\ used = 0
    /\ client = NoClient
    /\ head = IdleHead
    /\ download = NoDownload
    /\ hist = InitHist

\* The adapter instances of the process.
Adapters == {1, 2}

\* The options setupLifecycle reads: a missing option is the empty string.
\* adminServeBaseUrl is not given, "x" or "/x".
FolderOptions == {<<>>, basePath}
SecretOptions == {<<>>, <<115>>}
ServeBaseOptions == {<<>>, <<120>>, <<47, 120>>}

Options ==
    [fileSystemFolder : FolderOptions, signingSecret : SecretOptions,
     adminServeBaseUrl : ServeBaseOptions]

\* An instance after its constructor (lines 31-36): setupLifecycle has not
\* been called, no route is registered and no timer is started.
Constructed(options) ==
    [pc |-> "new", options |-> options, error |-> "none",
     routes |-> <<>>, timer |-> FALSE]

\* Lines 206, 280, 330 and 364: the three routes in the order of their
\* registration, and the sweep timer.
Serving(options) ==
    [pc |-> "running", options |-> options, error |-> "none",
     routes |-> <<"PUT", "GET", "HEAD">>, timer |-> TRUE]

\* The instance that serves the store: folder and secret given, no
\* adminServeBaseUrl, setupLifecycle returned.  No other instance exists.
InitServing ==
    /\ registredPrexises = <<>>
    /\ lifecycle = [i \in {1} |->
          Serving([fileSystemFolder |-> basePath, signingSecret |-> <<115>>,
                   adminServeBaseUrl |-> <<>>])]

\* Lines 33-35: no mode given, so the mode is "private".
Init == InitStore /\ mode = "private" /\ InitServing

\* The mode given in the options, or the default.
InitAnyMode == InitStore /\ mode \in Modes /\ InitServing

\* Two instances constructed with any options; the registry is empty.
InitStartup ==
    /\ InitStore
    /\ mode = "private"
    /\ registredPrexises = <<>>
    /\ lifecycle \in [Adapters -> {Constructed(o) : o \in Options}]

\* ------------------------------------------------------------ PUT handler

Max(a, b) == IF a >= b THEN a ELSE b

\* A slot is free when its handler has answered and the work its finish
\* callback left behind (the metadata put, markKeyForDeletion) has ended.
SlotFree(p) ==
    /\ put[p].pc = "idle"
    /\ put[p].metaPut = <<>>
    /\ mark[p].pc = "idle"

\* A new request takes the first free slot.
PutFree(p) == SlotFree(p) /\ \A q \in Puts : q < p => ~SlotFree(q)

\* The PUT requests a client can send at time nowMs: a URL obtained from
\* getUploadSignedUrl at time 0 or just now, sent as issued or with another
\* key in the path or another (or no) content-type header.
PutRequests(nowMs) ==
    { [key         |-> k,
       contentType |-> ct,
       expires     |-> url.expires,
       signature   |-> url.signature] :
         k \in RequestKeys, ct \in ContentTypes \cup {<<>>},
         url \in { getUploadSignedUrl(sk, UploadType(sk), DefaultExpiresIn, t) :
                     sk \in Keys, t \in {0, nowMs} } }

\* Lines 206-245: request req arrives, the checks run, and the handler
\* either answers 400 / 403 or awaits fs.access.
PutArrive(p, req) ==
    /\ used < MaxOps
    /\ PutFree(p)
    /\ used' = used + 1
    /\ LET status == PutChecks(req, now)
       IN  IF status # 0
           THEN /\ lastPut' = Answer(req.key, status, FALSE)
                /\ put' = put
           ELSE /\ put' = [put EXCEPT ![p] =
                            [IdlePut EXCEPT
                               !.pc = "access", !.key = req.key,
                               !.contentType = req.contentType,
                               !.size = BodySize(req.contentType),
                               !.late = hist.okCount[req.key] >= 1]]
                /\ lastPut' = lastPut
    /\ UNCHANGED <<now, ticks, levelGetRejects, disk, metadataDb,
                   candidatesForDeletionDb, mark, get, sweep, hist,
                   mode, registredPrexises, lifecycle, head>>

PutStart(p) ==
    /\ used < MaxOps
    /\ PutFree(p)
    /\ \E req \in PutRequests(now) : PutArrive(p, req)
    /\ UNCHANGED <<client, download>>

\* Lines 244-259: fs.access resolves (409), or it rejects and the handler
\* goes on: fs.mkdir of the parent folder (the root, for every key here:
\* it exists and mkdir changes nothing), then createWriteStream and pipe,
\* and the stream starts opening the file.
PutAccess(p) ==
    /\ put[p].pc = "access"
    /\ IF disk[PathResolve(put[p].key)].exists
       THEN /\ put' = [put EXCEPT ![p] = IdlePut]
            /\ lastPut' = Answer(put[p].key, 409, put[p].late)
       ELSE /\ put' = [put EXCEPT ![p].pc = "open"]
            /\ lastPut' = lastPut
    /\ UNCHANGED <<now, ticks, levelGetRejects, disk, metadataDb,
                   candidatesForDeletionDb, mark, get, sweep, hist, used, client,
                   mode, registredPrexises, lifecycle, head, download>>

\* createWriteStream opens with flag "w": the file is created, or
\* truncated when it exists.
PutOpen(p) ==
    /\ put[p].pc = "open"
    /\ disk' = [disk EXCEPT ![PathResolve(put[p].key)] =
                  [exists |-> TRUE, size |-> 0]]
    /\ put' = [put EXCEPT ![p].pc = "write", ![p].detached = FALSE]
    /\ UNCHANGED <<now, ticks, levelGetRejects, metadataDb,
                   candidatesForDeletionDb, lastPut, mark, get, sweep, hist,
                   used, client,
                   mode, registredPrexises, lifecycle, head, download>>

\* Lines 260-276: the body has been written from offset 0 (into the file
\* at the path, unless it was unlinked since the open) and "finish" fires:
\* metadataDb.put is started and not awaited, markKeyForDeletion is called
\* and not awaited (it runs up to its first await), and 200 is sent.
PutFinish(p) ==
    /\ put[p].pc = "write"
    /\ LET k == put[p].key
           f == PathResolve(k)
       IN  /\ disk' = IF put[p].detached THEN disk
                      ELSE [disk EXCEPT ![f].size = Max(@, put[p].size)]
           /\ put' = [put EXCEPT ![p] =
                         [IdlePut EXCEPT
                            !.key = k,
                            !.metaPut = <<Metadata(put[p].contentType, now,
                                                   put[p].size)>>]]
           /\ lastPut' = Answer(k, 200, put[p].late)
           /\ mark' = [mark EXCEPT ![p] =
                         [IdleMark EXCEPT !.pc = "getMeta", !.key = k]]
           /\ hist' = [hist EXCEPT
                         !.okCount[k] = IF @ >= 2 THEN 2 ELSE @ + 1,
                         !.lastOk[k] = [contentType |-> put[p].contentType,
                                        size |-> put[p].size],
                         !.retained[k] = FALSE]
    /\ UNCHANGED <<now, ticks, levelGetRejects, metadataDb,
                   candidatesForDeletionDb, get, sweep, used, client,
                   mode, registredPrexises, lifecycle, head, download>>

\* Lines 262-267: the metadata put started by the finish callback lands.
PutMetaWrite(p) ==
    /\ put[p].metaPut # <<>>
    /\ metadataDb' = LevelPut(metadataDb, put[p].key, put[p].metaPut[1])
    /\ put' = [put EXCEPT ![p] = IdlePut]
    /\ UNCHANGED <<now, ticks, levelGetRejects, disk,
                   candidatesForDeletionDb, lastPut, mark, get, sweep, hist,
                   used, client,
                   mode, registredPrexises, lifecycle, head, download>>

\* ------------------------------------- markKeyForDeletion / NotDeletion

\* How an invocation ends: the one made through the API keeps its
\* outcome until the next call; the PUT handler ignores the promise.
MarkEnd(m, result) ==
    IF m = ApiMark THEN [mark[m] EXCEPT !.pc = "done", !.result = result,
                                         !.createdAt = 0]
    ELSE IdleMark

\* markKeyForDeletion(key) called through the adapter API: it runs up to
\* its first await, metadataDb.get.
MarkCall(k) ==
    /\ mark[ApiMark].pc \in {"idle", "done"}
    /\ used < MaxOps
    /\ used' = used + 1
    /\ mark' = [mark EXCEPT ![ApiMark] =
                  [IdleMark EXCEPT !.pc = "getMeta", !.key = k]]
    /\ hist' = [hist EXCEPT !.retained[k] = FALSE,
                            !.guarded = hist.guarded \ {k}]
    /\ UNCHANGED <<now, ticks, levelGetRejects, disk, metadataDb,
                   candidatesForDeletionDb, put, get, sweep,
                   lastPut, client,
                   mode, registredPrexises, lifecycle, head, download>>

\* Lines 112-120: metadataDb.get settles.  On a missing key it rejects and
\* the catch rethrows, or it resolves to undefined and the function logs
\* and returns.
MarkGetMeta(m) ==
    /\ mark[m].pc = "getMeta"
    /\ mark' = [mark EXCEPT ![m] =
          IF mark[m].key \in DOMAIN metadataDb
          THEN [@ EXCEPT !.pc = "getCand",
                         !.createdAt = metadataDb[mark[m].key].createdAt]
          ELSE IF levelGetRejects
          THEN MarkEnd(m, "error")
          ELSE MarkEnd(m, "silent")]
    /\ UNCHANGED <<now, ticks, levelGetRejects, disk, metadataDb,
                   candidatesForDeletionDb, put, get, sweep, hist, used,
                   lastPut, client,
                   mode, registredPrexises, lifecycle, head, download>>

\* markKeyForDeletion without the look-up of lines 122-128: it always goes
\* on to the put.
MarkGetCand_NoLookup(m) ==
    /\ mark[m].pc = "getCand"
    /\ mark' = [mark EXCEPT ![m] = [@ EXCEPT !.pc = "putCand"]]
    /\ UNCHANGED <<now, ticks, levelGetRejects, disk, metadataDb,
                   candidatesForDeletionDb, put, get, sweep, hist, used,
                   lastPut, client,
                   mode, registredPrexises, lifecycle, head, download>>

\* Lines 122-128: candidatesForDeletionDb.get settles.  When it does not
\* throw the function returns; when it throws the function goes on to put.
MarkGetCand(m) ==
    /\ mark[m].pc = "getCand"
    /\ mark' = [mark EXCEPT ![m] =
          IF mark[m].key \in DOMAIN candidatesForDeletionDb \/ ~levelGetRejects
          THEN MarkEnd(m, "noop")
          ELSE [@ EXCEPT !.pc = "putCand"]]
    /\ UNCHANGED <<now, ticks, levelGetRejects, disk, metadataDb,
                   candidatesForDeletionDb, put, get, sweep, hist, used,
                   lastPut, client,
                   mode, registredPrexises, lifecycle, head, download>>

\* Lines 129-134: candidatesForDeletionDb.put(key, createdAt) lands; Level
\* stores the number as its decimal string.
MarkPutCand(m) ==
    /\ mark[m].pc = "putCand"
    /\ candidatesForDeletionDb' =
          LevelPut(candidatesForDeletionDb, mark[m].key,
                   NumToString(Num(mark[m].createdAt)))
    /\ mark' = [mark EXCEPT ![m] = MarkEnd(m, "ok")]
    /\ UNCHANGED <<now, ticks, levelGetRejects, disk, metadataDb,
                   put, get, sweep, hist, used,
                   lastPut, client,
                   mode, registredPrexises, lifecycle, head, download>>

\* Lines 111-135: what the caller of markKeyForDeletion is given when the
\* call has ended: the promise of the async function rejects when the body
\* threw and resolves when it returned.
MarkPromise(result) == IF result = "error" THEN "rejected" ELSE "resolved"

\* Lines 101-104: the deprecated alias logs a warning and starts
\* markKeyForDeletion without awaiting or returning its promise, so its own
\* promise resolves whatever becomes of the call.
markKeyForDeletation(result) == "resolved"

\* markKeyForNotDeletion deleting the metadata record as well.
markKeyForNotDeletion_DropsMetadata(k) ==
    /\ used < MaxOps
    /\ used' = used + 1
    /\ candidatesForDeletionDb' = LevelDel(candidatesForDeletionDb, k)
    /\ metadataDb' = LevelDel(metadataDb, k)
    /\ hist' = [hist EXCEPT !.retained[k] = hist.okCount[k] >= 1,
                            !.everRetained[k] = TRUE]
    /\ UNCHANGED <<now, ticks, levelGetRejects, disk,
                   put, mark, get, sweep,
                   lastPut, client,
                   mode, registredPrexises, lifecycle, head, download>>

\* Lines 143-150: markKeyForNotDeletion(key), whose only step is the del.
\* The key counts as retained when an upload of it has been answered 200.
markKeyForNotDeletion(k) ==
    /\ used < MaxOps
    /\ used' = used + 1
    /\ candidatesForDeletionDb' = LevelDel(candidatesForDeletionDb, k)
    /\ hist' = [hist EXCEPT !.retained[k] = hist.okCount[k] >= 1,
                            !.everRetained[k] = TRUE]
    /\ UNCHANGED <<now, ticks, levelGetRejects, disk, metadataDb,
                   put, mark, get, sweep,
                   lastPut, client,
                   mode, registredPrexises, lifecycle, head, download>>

\* ------------------------------------------------------------ GET handler

\* Lines 280-292: the request arrives; an unsafe key is answered 400,
\* otherwise the handler awaits fs.access.
GetArrive(k) ==
    /\ get.pc \in {"idle", "done"}
    /\ used < MaxOps
    /\ used' = used + 1
    /\ get' = IF ~InsideRoot(PathResolve(k))
              THEN [IdleGet EXCEPT !.pc = "done", !.key = k, !.status = 400]
              ELSE [IdleGet EXCEPT !.pc = "access", !.key = k,
                                   !.late = hist.okCount[k] >= 1]
    /\ UNCHANGED <<now, ticks, levelGetRejects, disk, metadataDb,
                   candidatesForDeletionDb, put, mark, sweep, hist,
                   lastPut, client, mode, registredPrexises, lifecycle, head>>

GetStart(k) == GetArrive(k) /\ UNCHANGED download

\* Lines 291-295: fs.access settles.
GetAccess ==
    /\ get.pc = "access"
    /\ get' = IF disk[PathResolve(get.key)].exists
              THEN [get EXCEPT !.pc = "meta"]
              ELSE [get EXCEPT !.pc = "done", !.status = 404]
    /\ UNCHANGED <<now, ticks, levelGetRejects, disk, metadataDb,
                   candidatesForDeletionDb, put, mark, sweep, hist, used,
                   lastPut, client,
                   mode, registredPrexises, lifecycle, head, download>>

\* Lines 298-315: metadataDb.get settles.  On a missing key it rejects and
\* the handler throws without answering, or it resolves to undefined and
\* the handler answers 404.  Otherwise sendFile is called with the headers.
GetMeta ==
    /\ get.pc = "meta"
    /\ get' = IF get.key \in DOMAIN metadataDb
              THEN [get EXCEPT !.pc = "send",
                      !.contentType = metadataDb[get.key].contentType,
                      !.contentLength = metadataDb[get.key].size]
              ELSE IF levelGetRejects
              THEN [get EXCEPT !.pc = "done", !.failed = TRUE]
              ELSE [get EXCEPT !.pc = "done", !.status = 404]
    /\ UNCHANGED <<now, ticks, levelGetRejects, disk, metadataDb,
                   candidatesForDeletionDb, put, mark, sweep, hist, used,
                   lastPut, client,
                   mode, registredPrexises, lifecycle, head, download>>

\* Lines 306-322: sendFile serves the file, or answers 500 when it is gone.
GetSend ==
    /\ get.pc = "send"
    /\ get' = IF disk[PathResolve(get.key)].exists
              THEN [get EXCEPT !.pc = "done", !.status = 200]
              ELSE [get EXCEPT !.pc = "done", !.status = 500,
                               !.contentType = <<>>, !.contentLength = 0]
    /\ UNCHANGED <<now, ticks, levelGetRejects, disk, metadataDb,
                   candidatesForDeletionDb, put, mark, sweep, hist, used,
                   lastPut, client,
                   mode, registredPrexises, lifecycle, head, download>>

\* ----------------------------------------------------------- HEAD handler

\* Lines 330-338: the request arrives; an unsafe key is answered 400,
\* otherwise the handler awaits fs.access.
HeadArrive(k) ==
    /\ head.pc \in {"idle", "done"}
    /\ used < MaxOps
    /\ used' = used + 1
    /\ head' = IF ~InsideRoot(PathResolve(k))
               THEN [IdleHead EXCEPT !.pc = "done", !.key = k, !.status = 400]
               ELSE [IdleHead EXCEPT !.pc = "access", !.key = k]
    /\ UNCHANGED <<now, ticks, levelGetRejects, disk, metadataDb,
                   candidatesForDeletionDb, put, mark, get, sweep, hist,
                   lastPut, client, mode, registredPrexises, lifecycle>>

HeadStart(k) == HeadArrive(k) /\ UNCHANGED download

\* Lines 340-345: fs.access settles.
HeadAccess ==
    /\ head.pc = "access"
    /\ head' = IF disk[PathResolve(head.key)].exists
               THEN [head EXCEPT !.pc = "meta"]
               ELSE [head EXCEPT !.pc = "done", !.status = 404]
    /\ UNCHANGED <<now, ticks, levelGetRejects, disk, metadataDb,
                   candidatesForDeletionDb, put, mark, get, sweep, hist, used,
                   lastPut, client, mode, registredPrexises, lifecycle, download>>

\* Lines 347-359: metadataDb.get settles.  On a missing key it rejects and
\* the handler throws without answering, or it resolves to undefined and
\* the handler answers 404.  Otherwise the four headers are set and the
\* handler returns: nothing sends or ends the response.
HeadMeta ==
    /\ head.pc = "meta"
    /\ head' = IF head.key \in DOMAIN metadataDb
               THEN [head EXCEPT !.pc = "done",
                       !.contentType = metadataDb[head.key].contentType,
                       !.contentLength = metadataDb[head.key].size]
               ELSE IF levelGetRejects
               THEN [head EXCEPT !.pc = "done", !.failed = TRUE]
               ELSE [head EXCEPT !.pc = "done", !.status = 404]
    /\ UNCHANGED <<now, ticks, levelGetRejects, disk, metadataDb,
                   candidatesForDeletionDb, put, mark, get, sweep, hist, used,
                   lastPut, client, mode, registredPrexises, lifecycle, download>>

\* ------------------------------------------------------------- the sweep

\* Level iterates keys in bytewise lexicographic order.
RECURSIVE LexLess(_, _)
LexLess(a, b) ==
    IF b = <<>> THEN FALSE
    ELSE IF a = <<>> THEN TRUE
    ELSE IF Head(a) # Head(b) THEN Head(a) < Head(b)
    ELSE LexLess(Tail(a), Tail(b))

RECURSIVE SortedKeys(_)
SortedKeys(S) ==
    IF S = {} THEN <<>>
    ELSE LET least == CHOOSE k \in S : \A o \in S \ {k} : LexLess(k, o)
         IN  <<least>> \o SortedKeys(S \ {least})

\* The loop goes on to the next key, or the callback ends.
SweepAdvance(sw) ==
    IF Len(sw.keys) <= 1 THEN IdleSweep
    ELSE [sw EXCEPT !.pc = "get", !.keys = Tail(sw.keys)]

\* An await of the callback rejected: the throw ends the callback.
SweepAbort == IdleSweep

\* Line 372: now - +createdAt > 24 * 60 * 60 * 1000 (false for NaN).
Expired(sweepNow, createdAt) ==
    ~createdAt.nan /\ sweepNow - createdAt.val > RetentionMs

\* Lines 364-366: the timer fires; now is read and keys().all() awaited.
\* One callback runs at a time.
SweepStart ==
    /\ sweep.pc = "idle"
    /\ sweep' = [IdleSweep EXCEPT !.pc = "keys", !.now = now]
    /\ hist' = [hist EXCEPT !.guarded = {k \in StoreKeys : hist.retained[k]}]
    /\ UNCHANGED <<now, ticks, levelGetRejects, disk, metadataDb,
                   candidatesForDeletionDb, put, mark, get, used,
                   lastPut, client,
                   mode, registredPrexises, lifecycle, head, download>>

\* Line 366: the keys of the candidate store, as of now.
SweepKeys ==
    /\ sweep.pc = "keys"
    /\ LET keys == SortedKeys(DOMAIN candidatesForDeletionDb)
       IN  sweep' = IF keys = <<>> THEN IdleSweep
                    ELSE [sweep EXCEPT !.pc = "get", !.keys = keys]
    /\ hist' = [hist EXCEPT
                  !.due = {k \in DOMAIN candidatesForDeletionDb :
                             /\ Expired(sweep.now,
                                        ToNumber(candidatesForDeletionDb[k]))
                             /\ hist.okCount[k] >= 1
                             /\ ~hist.everRetained[k]
                             /\ disk[PathResolve(k)].exists
                             /\ k \in DOMAIN metadataDb},
                  !.swept = {}]
    /\ UNCHANGED <<now, ticks, levelGetRejects, disk, metadataDb,
                   candidatesForDeletionDb, put, mark, get, used,
                   lastPut, client,
                   mode, registredPrexises, lifecycle, head, download>>

\* Lines 368-372: candidatesForDeletionDb.get(key) settles and the age is
\* compared.  A key removed since the enumeration makes get reject (the
\* callback throws) or resolve to undefined (+undefined is NaN).
SweepGet ==
    /\ sweep.pc = "get"
    /\ LET k == Head(sweep.keys)
       IN  sweep' =
             IF k \in DOMAIN candidatesForDeletionDb
             THEN IF Expired(sweep.now, ToNumber(candidatesForDeletionDb[k]))
                  THEN [sweep EXCEPT !.pc = "unlink"]
                  ELSE SweepAdvance(sweep)
             ELSE IF levelGetRejects THEN SweepAbort
             ELSE SweepAdvance(sweep)
    /\ UNCHANGED <<now, ticks, levelGetRejects, disk, metadataDb,
                   candidatesForDeletionDb, put, mark, get, hist, used,
                   lastPut, client,
                   mode, registredPrexises, lifecycle, head, download>>

\* Lines 374-379: fs.unlink settles: the file is removed (streams that have
\* it open keep writing to the unlinked file), or it is missing and the
\* callback throws.
SweepUnlink ==
    /\ sweep.pc = "unlink"
    /\ LET k == Head(sweep.keys)
           f == PathResolve(k)
       IN  IF disk[f].exists
           THEN /\ disk' = [disk EXCEPT ![f] = NoFile]
                /\ sweep' = [sweep EXCEPT !.pc = "delMeta"]
                /\ put' = [p \in Puts |->
                            IF put[p].key = k
                            THEN [put[p] EXCEPT
                                    !.detached = (put[p].pc = "write"),
                                    !.late = FALSE]
                            ELSE put[p]]
                /\ get' = IF get.key = k THEN [get EXCEPT !.late = FALSE]
                          ELSE get
                /\ hist' = [hist EXCEPT !.okCount[k] = 0,
                                        !.retained[k] = FALSE]
           ELSE /\ sweep' = SweepAbort
                /\ UNCHANGED <<disk, put, get, hist>>
    /\ UNCHANGED <<now, ticks, levelGetRejects, metadataDb,
                   candidatesForDeletionDb, mark, used,
                   lastPut, client,
                   mode, registredPrexises, lifecycle, head, download>>

\* Lines 381-386: metadataDb.del settles; the loop goes on.  The candidate
\* entry is left in candidatesForDeletionDb.
SweepDelMeta ==
    /\ sweep.pc = "delMeta"
    /\ metadataDb' = LevelDel(metadataDb, Head(sweep.keys))
    /\ sweep' = SweepAdvance(sweep)
    /\ hist' = [hist EXCEPT !.swept = @ \cup {Head(sweep.keys)}]
    /\ UNCHANGED <<now, ticks, levelGetRejects, disk,
                   candidatesForDeletionDb, put, mark, get, used,
                   lastPut, client,
                   mode, registredPrexises, lifecycle, head, download>>

\* ---------------------------------------------------------------- clock

\* No request, Level operation or sweep is in progress.
Quiescent ==
    /\ \A p \in Puts : put[p] = IdlePut
    /\ \A m \in Marks : mark[m].pc \in {"idle", "done"}
    /\ get.pc \in {"idle", "done"}
    /\ sweep.pc = "idle"

\* Time passes: exactly the retention window, or one millisecond more.  No
\* handler step, Level operation or sweep stays pending that long, so the
\* clock makes these jumps between them.
Tick ==
    /\ ticks < MaxTicks
    /\ Quiescent
    /\ \E d \in {RetentionMs, RetentionMs + 1} : now' = now + d
    /\ ticks' = ticks + 1
    /\ UNCHANGED <<levelGetRejects, disk, metadataDb,
                   candidatesForDeletionDb, put, mark, get, sweep, hist, used,
                   lastPut, client,
                   mode, registredPrexises, lifecycle, head, download>>

Next ==
    \/ \E p \in Puts : PutStart(p)
    \/ \E p \in Puts : PutAccess(p)
    \/ \E p \in Puts : PutOpen(p)
    \/ \E p \in Puts : PutFinish(p)
    \/ \E p \in Puts : PutMetaWrite(p)
    \/ \E k \in Keys : MarkCall(k)
    \/ \E m \in Marks : MarkGetMeta(m)
    \/ \E m \in Marks : MarkGetCand(m)
    \/ \E m \in Marks : MarkPutCand(m)
    \/ \E k \in Keys : markKeyForNotDeletion(k)
    \/ \E k \in RequestKeys : GetStart(k)
    \/ GetAccess
    \/ GetMeta
    \/ GetSend
    \/ SweepStart
    \/ SweepKeys
    \/ SweepGet
    \/ SweepUnlink
    \/ SweepDelMeta
    \/ Tick

Spec == Init /\ [][Next]_vars

\* ------------------------------------------------- the signing scenario
\* A client asks getUploadSignedUrl for one URL, time passes, and the client
\* sends one PUT made of that URL: as issued, or with another key, another
\* content-type header or another expires parameter.

\* expiresIn, in seconds, of the URLs asked for.
SignExpiresIn == {0, 1, 2}

SignIssue ==
    /\ client.state = "none"
    /\ \E k \in SignKeys, ct \in ContentTypes, e \in SignExpiresIn :
         client' = [state       |-> "holds",
                    key         |-> k,
                    contentType |-> ct,
                    issuedAt    |-> now,
                    expiresIn   |-> e,
                    url         |-> getUploadSignedUrl(k, ct, e, now)]
    /\ UNCHANGED <<now, ticks, levelGetRejects, disk, metadataDb,
                   candidatesForDeletionDb, put, lastPut, mark, get, sweep,
                   used, hist, mode, registredPrexises, lifecycle, head, download>>

\* The clock advances by a millisecond, half a second or a second.
SignTick ==
    /\ ticks < MaxSignTicks
    /\ client.state # "sent"
    /\ \E d \in {1, 500, 1000} : now' = now + d
    /\ ticks' = ticks + 1
    /\ UNCHANGED <<levelGetRejects, disk, metadataDb,
                   candidatesForDeletionDb, put, lastPut, mark, get, sweep,
                   used, client, hist,
                   mode, registredPrexises, lifecycle, head, download>>

\* The expires parameters a client can send in place of e: e itself, e
\* with a leading "0", with a leading "1", or with a "0" appended.
ExpiresVariants(e) == {e, <<48>> \o e, <<49>> \o e, e \o <<48>>}

SignRequests ==
    { [key         |-> k,
       contentType |-> ct,
       expires     |-> e,
       signature   |-> client.url.signature] :
         k \in SignKeys, ct \in ContentTypes \cup {<<>>},
         e \in ExpiresVariants(client.url.expires) }

SignPut ==
    /\ client.state = "holds"
    /\ \E req \in SignRequests :
         /\ PutArrive(1, req)
         /\ client' = [state       |-> "sent",
                       key         |-> client.key,
                       contentType |-> client.contentType,
                       issuedAt    |-> client.issuedAt,
                       expiresIn   |-> client.expiresIn,
                       url         |-> client.url,
                       req         |-> req,
                       at          |-> now,
                       status      |-> PutChecks(req, now)]
    /\ UNCHANGED download

NextSign ==
    \/ SignIssue
    \/ SignTick
    \/ SignPut
    \/ \E p \in Puts : PutAccess(p)
    \/ \E p \in Puts : PutOpen(p)
    \/ \E p \in Puts : PutFinish(p)
    \/ \E p \in Puts : PutMetaWrite(p)
    \/ \E m \in Marks : MarkGetMeta(m)
    \/ \E m \in Marks : MarkGetCand(m)
    \/ \E m \in Marks : MarkPutCand(m)

SpecSign == Init /\ [][NextSign]_vars

\* -------------------------------------------------------- request scenario
\* Clients send PUT requests for safe and unsafe keys with any content-type
\* header, ask getDownloadUrl for a URL and send one GET or HEAD request
\* with or without its query, in either mode; no sweep runs.

\* ".": a key that resolves to the storage root itself.
KeyRoot == <<46>>
HttpKeys == {KeyA, KeyOutside, KeyRoot}

\* A PUT for key k: its URL was signed by getUploadSignedUrl for k and some
\* content type, at time 0 or just now; the header carries any content type
\* or none.
HttpPutRequests(nowMs) ==
    { [key         |-> k,
       contentType |-> ct,
       expires     |-> url.expires,
       signature   |-> url.signature] :
         ct \in ContentTypes \cup {<<>>},
         <<k, url>> \in
           { <<hk, getUploadSignedUrl(hk, sct, DefaultExpiresIn, t)>> :
               hk \in HttpKeys, sct \in ContentTypes, t \in {0, nowMs} } }

HttpPut(p) ==
    /\ used < MaxHttpOps
    /\ PutFree(p)
    /\ \E req \in HttpPutRequests(now) :
         /\ PutArrive(p, req)
         /\ client' = [state |-> "put", req |-> req, at |-> now,
                       status |-> PutChecks(req, now)]
    /\ UNCHANGED download

\* The adapter's user asks for the download URL of "a".
DownloadIssue ==
    /\ download.state = "none"
    /\ download' = [state    |-> "holds",
                    key      |-> KeyA,
                    issuedAt |-> now,
                    url      |-> getDownloadUrl(KeyA, DefaultExpiresIn, now,
                                                mode)]
    /\ UNCHANGED <<now, ticks, levelGetRejects, disk, metadataDb,
                   candidatesForDeletionDb, put, lastPut, mark, get, sweep,
                   used, client, hist, mode, registredPrexises, lifecycle, head>>

\* The requests a client can send to the route: for any key, with no
\* query, with the query of the URL it holds, or with the signature of the
\* route's path for that key and the URL's expires.
DownloadRequests ==
    { [key |-> k, expires |-> q[1], signature |-> q[2]] :
        k \in HttpKeys,
        q \in { <<<<>>, <<>>>>,
                <<download.url.expires, download.url.signature>>,
                <<download.url.expires,
                  sign(UrlPath(download.key),
                       ParseInt(download.url.expires), <<>>)>> } }

Sent(method, req) ==
    [state    |-> "sent",
     key      |-> download.key,
     issuedAt |-> download.issuedAt,
     url      |-> download.url,
     method   |-> method,
     req      |-> req,
     at       |-> now]

DownloadGet ==
    /\ download.state = "holds"
    /\ used < MaxHttpOps
    /\ \E req \in DownloadRequests :
         /\ GetArrive(req.key)
         /\ download' = Sent("GET", req)

DownloadHead ==
    /\ download.state = "holds"
    /\ used < MaxHttpOps
    /\ \E req \in DownloadRequests :
         /\ HeadArrive(req.key)
         /\ download' = Sent("HEAD", req)

NextHttp ==
    \/ \E p \in Puts : HttpPut(p)
    \/ \E p \in Puts : PutAccess(p)
    \/ \E p \in Puts : PutOpen(p)
    \/ \E p \in Puts : PutFinish(p)
    \/ \E p \in Puts : PutMetaWrite(p)
    \/ \E m \in Marks : MarkGetMeta(m)
    \/ \E m \in Marks : MarkGetCand(m)
    \/ \E m \in Marks : MarkPutCand(m)
    \/ DownloadIssue
    \/ DownloadGet
    \/ DownloadHead
    \/ GetAccess
    \/ GetMeta
    \/ GetSend
    \/ HeadAccess
    \/ HeadMeta
    \/ Tick

SpecHttp == InitAnyMode /\ [][NextHttp]_vars

\* ------------------------------------------- garbage collection scenario

\* The store in sequential use: an upload arrives and the timer fires only
\* while nothing else is in progress, and the application calls neither
\* markKeyForDeletion nor markKeyForNotDeletion, so no key is ever retained.
PutStartIdle(p) == Quiescent /\ PutStart(p)

SweepStartIdle == Quiescent /\ SweepStart

NextGc ==
    \/ \E p \in Puts : PutStartIdle(p)
    \/ \E p \in Puts : PutAccess(p)
    \/ \E p \in Puts : PutOpen(p)
    \/ \E p \in Puts : PutFinish(p)
    \/ \E p \in Puts : PutMetaWrite(p)
    \/ \E m \in Marks : MarkGetMeta(m)
    \/ \E m \in Marks : MarkGetCand(m)
    \/ \E m \in Marks : MarkPutCand(m)
    \/ SweepStartIdle
    \/ SweepKeys
    \/ SweepGet
    \/ SweepUnlink
    \/ SweepDelMeta
    \/ Tick

\* The steps of the sweep, of one PUT handler and of one markKeyForDeletion
\* call.  Each of these runs its steps one at a time.
SweepStep ==
    SweepStartIdle \/ SweepKeys \/ SweepGet \/ SweepUnlink \/ SweepDelMeta

PutStep(p) == PutAccess(p) \/ PutOpen(p) \/ PutFinish(p) \/ PutMetaWrite(p)

MarkStep(m) == MarkGetMeta(m) \/ MarkGetCand(m) \/ MarkPutCand(m)

\* The sweep timer keeps firing and every started file-system and Level
\* operation settles.
Fairness ==
    /\ WF_vars(SweepStep)
    /\ \A p \in Puts : WF_vars(PutStep(p))
    /\ \A m \in Marks : WF_vars(MarkStep(m))

FairSpec == Init /\ [][NextGc]_vars /\ Fairness

\* ------------------------------------------------------ startup scenario
\* Two adapter instances are constructed and setupLifecycle is called on
\* each; the calls interleave at their awaits.  No request is served.

\* A value of the options counts as given when it is not empty.
Given(option) == option # <<>>

\* The call threw with this error.
Threw(a, error) == [a EXCEPT !.pc = "threw", !.error = error]

Includes(seq, x) == \E j \in 1..Len(seq) : seq[j] = x

\* The registry and the instance with the prefix pushed before it is
\* looked up.
RegisterAndServe_PushFirst(registry, a) ==
    LET url == a.options.adminServeBaseUrl
    IN  IF ~Given(url)
        THEN [registry |-> registry, adapter |-> Serving(a.options)]
        ELSE IF Includes(Append(registry, url), url)
                  \/ Includes(Append(registry, url), <<47>> \o url)
        THEN [registry |-> Append(registry, url),
              adapter  |-> Threw(a, "registered")]
        ELSE [registry |-> Append(registry, url),
              adapter  |-> Serving(a.options)]

\* Lines 181-390, which run without an await: the two Level stores are
\* made, a given adminServeBaseUrl is looked up in registredPrexises, as
\* it is and with a leading slash, and the call throws when it is found;
\* otherwise it is pushed, the PUT, GET and HEAD routes are registered and
\* the sweep timer is started.
RegisterAndServe(registry, a) ==
    LET url == a.options.adminServeBaseUrl
    IN  IF ~Given(url)
        THEN [registry |-> registry, adapter |-> Serving(a.options)]
        ELSE IF Includes(registry, url) \/ Includes(registry, <<47>> \o url)
        THEN [registry |-> registry, adapter |-> Threw(a, "registered")]
        ELSE [registry |-> Append(registry, url),
              adapter  |-> Serving(a.options)]

\* What a step of setupLifecycle leaves alone.
StoreUnchanged ==
    UNCHANGED <<now, ticks, levelGetRejects, disk, metadataDb,
                candidatesForDeletionDb, put, lastPut, mark, get, sweep,
                used, client, mode, head, download, hist>>

\* Lines 152-164: setupLifecycle is called; it throws when fileSystemFolder
\* or signingSecret is missing and awaits fs.mkdir otherwise.
SetupCall(i) ==
    /\ lifecycle[i].pc = "new"
    /\ lifecycle' = [lifecycle EXCEPT ![i] =
          IF ~Given(@.options.fileSystemFolder)
          THEN Threw(@, "fileSystemFolder")
          ELSE IF ~Given(@.options.signingSecret)
          THEN Threw(@, "signingSecret")
          ELSE [@ EXCEPT !.pc = "mkdir"]]
    /\ UNCHANGED registredPrexises
    /\ StoreUnchanged

\* Lines 163-170: fs.mkdir settles; the folder cannot be created and the
\* call throws, or it awaits the check that the folder is writable.
SetupMkdir(i) ==
    /\ lifecycle[i].pc = "mkdir"
    /\ \E ok \in BOOLEAN :
         lifecycle' = [lifecycle EXCEPT ![i] =
            IF ok THEN [@ EXCEPT !.pc = "writable"] ELSE Threw(@, "mkdir")]
    /\ UNCHANGED registredPrexises
    /\ StoreUnchanged

\* Lines 169-176: fs.access(W_OK) settles.
SetupWritable(i) ==
    /\ lifecycle[i].pc = "writable"
    /\ \E ok \in BOOLEAN :
         lifecycle' = [lifecycle EXCEPT ![i] =
            IF ok THEN [@ EXCEPT !.pc = "readable"] ELSE Threw(@, "writable")]
    /\ UNCHANGED registredPrexises
    /\ StoreUnchanged

\* Lines 175-390: fs.access(R_OK) settles; when the folder is readable the
\* rest of setupLifecycle runs to its end.
SetupReadable(i) ==
    /\ lifecycle[i].pc = "readable"
    /\ \E ok \in BOOLEAN :
         IF ok
         THEN LET r == RegisterAndServe(registredPrexises, lifecycle[i])
              IN  /\ registredPrexises' = r.registry
                  /\ lifecycle' = [lifecycle EXCEPT ![i] = r.adapter]
         ELSE /\ lifecycle' = [lifecycle EXCEPT ![i] = Threw(@, "readable")]
              /\ UNCHANGED registredPrexises
    /\ StoreUnchanged

NextStartup ==
    \/ \E i \in Adapters : SetupCall(i)
    \/ \E i \in Adapters : SetupMkdir(i)
    \/ \E i \in Adapters : SetupWritable(i)
    \/ \E i \in Adapters : SetupReadable(i)

SpecStartup == InitStartup /\ [][NextStartup]_vars

\* ============================================================ properties

\* The file path of each stored key.
FilePath == [k \in StoreKeys |-> PathResolve(k)]

FileOf(k) == disk[FilePath[k]]

\* A PUT handler answers in this step.
Answers200(p) == put[p].pc = "write" /\ put'[p].pc # "write"
LeavesProbe(p) == put[p].pc = "access" /\ put'[p].pc # "access"

FileDeleted(k) == disk' # disk /\ FileOf(k).exists /\ ~FileOf(k).exists'
MetadataDeleted(k) == k \in DOMAIN metadataDb /\ k \notin DOMAIN metadataDb'

\* C1 (create-once under concurrency): no key has two PUTs answered 200
\* without its file being deleted in between, and no two PUT handlers are
\* writing the same key's file at once.
C1_CreateOnceConcurrent ==
    /\ \A k \in StoreKeys : hist.okCount[k] <= 1
    /\ \A p, q \in Puts :
         (p # q /\ put[p].pc = "write" /\ put[q].pc = "write")
           => put[p].key # put[q].key

\* C2 (create-once in sequence): a PUT that arrives after a PUT of the same
\* key was answered 200, the file not having been deleted since, is answered
\* 409 when its probe settles and changes neither the file nor the metadata;
\* and a PUT whose probe finds no file (as after the sweep deleted it) is
\* not answered 409 but goes on to write.
C2_CreateOnceSequential ==
    [][\A p \in Puts :
         LeavesProbe(p) =>
           /\ put[p].late =>
                /\ lastPut' = Answer(put[p].key, 409, TRUE)
                /\ put'[p] = IdlePut
                /\ UNCHANGED <<disk, metadataDb>>
           /\ ~FileOf(put[p].key).exists => put'[p].pc = "open"]_vars

\* C3 (candidate at the moment of the 200): when a PUT is answered 200 the
\* key's metadata record is stored and the key is in the candidate store.
C3_CandidateAtAnswer ==
    [][\A p \in Puts :
         Answers200(p) =>
           /\ put[p].key \in DOMAIN metadataDb'
           /\ put[p].key \in DOMAIN candidatesForDeletionDb']_vars

\* C4 (read-after-write): a GET of a key that arrived after a PUT of the
\* key was answered 200, the file not having been deleted since, ends with
\* a 200 carrying the uploaded content type and the number of bytes written.
C4_ReadAfterWrite ==
    (get.pc = "done" /\ get.late) =>
        /\ ~get.failed
        /\ get.status = 200
        /\ get.contentType = hist.lastOk[get.key].contentType
        /\ get.contentLength = hist.lastOk[get.key].size

\* C5 (retention window safety): the sweep deletes neither the file nor the
\* metadata record of a key whose current metadata record is at most 24
\* hours old at the sweep's time.
C5_RetentionWindow ==
    [][\A k \in StoreKeys :
         ((FileDeleted(k) \/ MetadataDeleted(k)) /\ k \in DOMAIN metadataDb)
           => sweep.now - metadataDb[k].createdAt > RetentionMs]_vars

\* C6 (retention protects): once markKeyForNotDeletion(k) has ended after
\* k's upload was answered 200, and until markKeyForDeletion(k) is called
\* again, no sweep that starts later deletes k's file or k's metadata
\* record.
C6_RetentionProtects ==
    [][\A k \in StoreKeys :
         (hist.retained[k] /\ k \in hist.guarded)
           => ~FileDeleted(k) /\ ~MetadataDeleted(k)]_vars

\* C7 (expiry reclaims): when a sweep has ended, every key it enumerated
\* that was then uploaded, never retained and past the retention window has
\* had its file and its metadata record deleted by that sweep.
C7_ExpiryReclaims ==
    sweep.pc = "idle" =>
        \A k \in hist.due : hist.everRetained[k] \/ k \in hist.swept

\* An uploaded, never retained object with its candidate entry, past the
\* retention window.
Reclaimable(k) ==
    /\ hist.okCount[k] >= 1
    /\ ~hist.everRetained[k]
    /\ FileOf(k).exists
    /\ k \in DOMAIN metadataDb
    /\ k \in DOMAIN candidatesForDeletionDb
    /\ now - metadataDb[k].createdAt > RetentionMs

Gone(k) == ~FileOf(k).exists /\ k \notin DOMAIN metadataDb

\* C8 (eventual reclamation): with the sweep timer firing again and again,
\* an uploaded, never retained object that is past the retention window is
\* eventually deleted, file and metadata.
C8_EventualReclamation ==
    \A k \in Keys : Reclaimable(k) ~> Gone(k)

\* The triple the client's URL was signed for.
SignedExpires == (client.issuedAt \div 1000) + client.expiresIn

\* C9 (signature binding): a PUT made of a signed URL passes the checks
\* only with the key, the expiry and the content type the URL was signed
\* for.
C9_SignatureBinding ==
    (client.state = "sent" /\ client.status = 0) =>
        /\ client.req.key = client.key
        /\ ParseInt(client.req.expires) = Num(SignedExpires)
        /\ client.req.contentType = client.contentType

\* The PUT is the URL as issued: same key, expires and content type.
AsIssued ==
    /\ client.state = "sent"
    /\ client.req.key = client.key
    /\ client.req.expires = client.url.expires
    /\ client.req.contentType = client.contentType

NothingWritten ==
    /\ \A k \in StoreKeys : ~FileOf(k).exists
    /\ metadataDb = EmptyDb
    /\ candidatesForDeletionDb = EmptyDb
    /\ \A p \in Puts : put[p] = IdlePut

\* C10 (expiry of a signed upload URL): a PUT made of the URL as issued
\* passes the checks exactly when the clock is at or before expires; later
\* it is answered 403 and nothing is written.
C10_UrlExpiry ==
    AsIssued =>
        /\ client.status = 0 <=> client.at <= SignedExpires * 1000
        /\ client.status # 0 => (client.status = 403 /\ NothingWritten)

\* The URL as issued was refused one millisecond after its expiry.
C10_Witness ==
    /\ AsIssued
    /\ client.at = SignedExpires * 1000 + 1
    /\ client.status = 403

\* A download request verifies: its signature is the one sign gives for
\* the route's path of its key and its expires, and it is not expired.
DownloadVerifies(req, nowMs) ==
    LET expires == ParseInt(req.expires)
    IN  /\ ~expires.nan
        /\ req.signature = sign(UrlPath(req.key), expires, <<>>)
        /\ ~SignatureExpired(nowMs, expires)

\* C11 (private-mode downloads are authorized by the signed URL): in
\* private mode a GET or HEAD whose expires and signature do not verify
\* for its path, or are missing or expired, is not answered 200, and a
\* GET gets no metadata headers.
C11_PrivateDownloadAuthorized ==
    (mode = "private" /\ download.state = "sent"
       /\ ~DownloadVerifies(download.req, download.at))
    => /\ get.pc = "done" => (get.status # 200 /\ get.contentType = <<>>)
       /\ head.pc = "done" => head.status # 200

\* C12 (download URL round trip): in either mode the URL getDownloadUrl
\* returns for a key has the route's path for that key, the path
\* getUploadSignedUrl uses, and in private mode its signature is the one
\* sign gives for that path and the URL's expires.
C12_DownloadUrlRoundTrip ==
    download.state \in {"holds", "sent"} =>
        /\ download.url.path = UrlPath(download.key)
        /\ download.url.path =
             getUploadSignedUrl(download.key, UploadType(download.key),
                                DefaultExpiresIn, download.issuedAt).path
        /\ mode = "private" =>
             download.url.signature =
               sign(UrlPath(download.key), ParseInt(download.url.expires),
                    <<>>)

\* "../b" resolves to "/b" and "." to the storage root "/r" itself.
UnsafeKeys == {KeyOutside, KeyRoot}

\* C13 (path safety): a PUT, GET or HEAD for a key whose resolved path is
\* not strictly inside the storage root is answered 400, on PUT whatever
\* its signature; no handler goes on to probe, create, read or write with
\* such a key, and no file exists outside the root.
C13_PathSafety ==
    /\ (client.state = "put" /\ client.req.key \in UnsafeKeys)
         => client.status = 400
    /\ lastPut.key \in UnsafeKeys => lastPut.status = 400
    /\ \A p \in Puts : put[p].key \notin UnsafeKeys
    /\ \A m \in Marks : mark[m].key \notin UnsafeKeys
    /\ get.key \in UnsafeKeys => (get.pc = "done" /\ get.status = 400)
    /\ head.key \in UnsafeKeys => (head.pc = "done" /\ head.status = 400)
    /\ \A f \in DOMAIN disk :
         disk[f].exists => StartsWith(f, basePath \o <<47>>)
    /\ DOMAIN metadataDb \cap UnsafeKeys = {}

\* A PUT for "../b" that carries the signature of its own URL and content
\* type has been answered 400, and so has a GET for "." .
C13_Witness ==
    /\ client.state = "put"
    /\ client.req.key = KeyOutside
    /\ client.req.contentType # <<>>
    /\ client.req.signature =
         sign(UrlPath(client.req.key), ParseInt(client.req.expires),
              PayloadOf(client.req.contentType))
    /\ lastPut = Answer(KeyOutside, 400, FALSE)
    /\ get.key = KeyRoot /\ get.pc = "done" /\ get.status = 400

\* The status the stated order of checks gives a PUT made of the client's
\* URL (0: the request goes on to the existence probe): the signature is
\* verified for the request's path and expires and the content type the
\* URL was signed for, and the header is then compared with that type.
StatedPutStatus ==
    LET req     == client.req
        expires == ParseInt(req.expires)
    IN  IF req.contentType = <<>> THEN 400
        ELSE IF ~InsideRoot(PathResolve(req.key)) THEN 400
        ELSE IF req.signature #
                  sign(UrlPath(req.key), expires,
                       PayloadOf(client.contentType)) THEN 403
        ELSE IF SignatureExpired(client.at, expires) THEN 403
        ELSE IF req.contentType # client.contentType THEN 400
        ELSE 0

\* C14 (PUT rejections, their order and status): a PUT is answered 400
\* without a content-type header, 400 for an unsafe key, 403 for a bad or
\* expired signature, and 400 when its content-type header differs from
\* the content type the URL was signed for; a rejected PUT creates no file,
\* metadata record or candidate entry.
C14_PutRejectionOrder ==
    client.state = "sent" =>
        /\ client.status = StatedPutStatus
        /\ client.status # 0 => NothingWritten

\* The answer 404 of a handler h that has ended.
NotFound(h) == h.pc = "done" /\ h.status = 404 /\ ~h.failed

\* C15 (not found): a GET or HEAD whose probe finds no file is answered
\* 404, and one that finds the file but no metadata record is answered 404
\* as well, not left without a response.
C15_NotFound ==
    [][/\ (get.pc = "access" /\ get'.pc # "access"
             /\ ~FileOf(get.key).exists) => NotFound(get')
       /\ (get.pc = "meta" /\ get'.pc # "meta"
             /\ get.key \notin DOMAIN metadataDb) => NotFound(get')
       /\ (head.pc = "access" /\ head'.pc # "access"
             /\ ~FileOf(head.key).exists) => NotFound(head')
       /\ (head.pc = "meta" /\ head'.pc # "meta"
             /\ head.key \notin DOMAIN metadataDb) => NotFound(head')]_vars

\* C16 (HEAD completes): when the HEAD handler ends for a key that has a
\* file and a metadata record, a response has been sent: 200, with the
\* content type and content length of the record, as GET sends them.
C16_HeadCompletes ==
    [][(head.pc = "meta" /\ head'.pc = "done"
          /\ head.key \in DOMAIN metadataDb)
       => /\ head'.status = 200
          /\ head'.contentType = metadataDb[head.key].contentType
          /\ head'.contentLength = metadataDb[head.key].size]_vars

\* C17 (sweep removes the candidate entry): when a sweep ends, no key whose
\* file and metadata record it deleted is left in the candidate tracker.
C17_SweepRemovesCandidate ==
    [][(sweep.pc # "idle" /\ sweep'.pc = "idle")
       => \A k \in hist'.swept : k \notin DOMAIN candidatesForDeletionDb']_vars

\* C18 (sweep resilience): a failure on one key does not end the sweep
\* before the keys enumerated after it: when a sweep ends, none of the keys
\* it has not visited is an expired candidate whose file is still there.
C18_SweepResilience ==
    [][(sweep.pc # "idle" /\ sweep'.pc = "idle")
       => \A i \in 2..Len(sweep.keys) :
            LET k == sweep.keys[i]
            IN  ~ /\ k \in DOMAIN candidatesForDeletionDb
                  /\ Expired(sweep.now, ToNumber(candidatesForDeletionDb[k]))
                  /\ FileOf(k).exists]_vars

\* C19 (stores consistency): while no request, Level operation or sweep is
\* in progress, every key of the candidate tracker has a metadata record,
\* and the candidate's timestamp is the createdAt of that record.
C19_StoresConsistent ==
    Quiescent =>
        \A k \in DOMAIN candidatesForDeletionDb :
            /\ k \in DOMAIN metadataDb
            /\ ToNumber(candidatesForDeletionDb[k])
                 = Num(metadataDb[k].createdAt)

\* C20 (metadata immutability): no step changes the value of a metadata
\* record that exists, and a record is removed only by a step of the sweep.
C20_MetadataImmutable ==
    [][\A k \in DOMAIN metadataDb :
         IF k \in DOMAIN metadataDb'
         THEN metadataDb'[k] = metadataDb[k]
         ELSE sweep.pc = "delMeta" /\ Head(sweep.keys) = k]_vars

\* A step of a markKeyForDeletion call: one of its awaits settles.
MarkSettles(m) ==
    mark[m].pc \in {"getMeta", "getCand", "putCand"} /\ mark'[m] # mark[m]

\* C21 (markForDeletion is idempotent): no step of markKeyForDeletion
\* changes the metadata store or a file, removes a candidate entry or
\* changes the entry of another key; a call whose look-up finds its key in
\* the tracker ends there and leaves the whole tracker as it is.
C21_MarkIdempotent ==
    [][\A m \in Marks :
         MarkSettles(m)
           => /\ metadataDb' = metadataDb
              /\ disk' = disk
              /\ \A k \in DOMAIN candidatesForDeletionDb :
                    /\ k \in DOMAIN candidatesForDeletionDb'
                    /\ k # mark[m].key
                         => candidatesForDeletionDb'[k]
                              = candidatesForDeletionDb[k]
              /\ (mark[m].pc = "getCand"
                    /\ mark[m].key \in DOMAIN candidatesForDeletionDb)
                 => /\ mark'[m].pc \in {"idle", "done"}
                    /\ candidatesForDeletionDb' = candidatesForDeletionDb]_vars

\* markKeyForDeletion, called through the API on a key whose candidate
\* entry it found, has returned; the entry still holds the createdAt of the
\* key's metadata record.
C21_Witness ==
    /\ levelGetRejects
    /\ mark[ApiMark].pc = "done"
    /\ mark[ApiMark].result = "noop"
    /\ mark[ApiMark].key \in DOMAIN candidatesForDeletionDb
    /\ mark[ApiMark].key \in DOMAIN metadataDb
    /\ ToNumber(candidatesForDeletionDb[mark[ApiMark].key])
         = Num(metadataDb[mark[ApiMark].key].createdAt)

\* C22 (markForDeletion without metadata fails loudly): when the
\* metadata look-up of a call made through the API finds no record, the
\* call ends in an error given to the caller, directly and through the
\* alias markKeyForDeletation, and the candidate tracker is unchanged.
C22_MarkFailsLoudly ==
    [][(/\ mark[ApiMark].pc = "getMeta"
        /\ mark'[ApiMark].pc # "getMeta"
        /\ mark[ApiMark].key \notin DOMAIN metadataDb)
       => /\ mark'[ApiMark].pc = "done"
          /\ MarkPromise(mark'[ApiMark].result) = "rejected"
          /\ markKeyForDeletation(mark'[ApiMark].result) = "rejected"
          /\ candidatesForDeletionDb' = candidatesForDeletionDb]_vars

\* C23 (markForRetention): a call of markKeyForNotDeletion(k) leaves k out
\* of the candidate tracker, changes nothing when k was not in it, and
\* leaves the metadata store, every file and the entry of every other key
\* as they were; a second call changes nothing more.
C23_RetentionFrame ==
    [][\A k \in Keys :
         markKeyForNotDeletion(k)
           => /\ k \notin DOMAIN candidatesForDeletionDb'
              /\ k \notin DOMAIN candidatesForDeletionDb
                   => candidatesForDeletionDb' = candidatesForDeletionDb
              /\ \A j \in DOMAIN candidatesForDeletionDb \ {k} :
                    /\ j \in DOMAIN candidatesForDeletionDb'
                    /\ candidatesForDeletionDb'[j] = candidatesForDeletionDb[j]
              /\ DOMAIN candidatesForDeletionDb'
                   \subseteq DOMAIN candidatesForDeletionDb
              /\ LevelDel(candidatesForDeletionDb', k)
                   = candidatesForDeletionDb'
              /\ metadataDb' = metadataDb
              /\ disk' = disk]_vars

\* Both keys were uploaded and got their candidate entries; after
\* markKeyForNotDeletion("a") the entry of a is gone, the entry of b, both
\* files and both metadata records are there.
C23_Witness ==
    /\ levelGetRejects
    /\ Quiescent
    /\ hist.retained[KeyA]
    /\ KeyA \notin DOMAIN candidatesForDeletionDb
    /\ KeyB \in DOMAIN candidatesForDeletionDb
    /\ {KeyA, KeyB} \subseteq DOMAIN metadataDb
    /\ FileOf(KeyA).exists /\ FileOf(KeyB).exists

\* The instances whose setupLifecycle returned with a prefix of their own.
Claimants ==
    {i \in DOMAIN lifecycle :
        /\ lifecycle[i].pc = "running"
        /\ Given(lifecycle[i].options.adminServeBaseUrl)}

\* C24 (startup failure is total): an instance whose setupLifecycle threw
\* has no route registered and no sweep timer, and the registry holds the
\* prefixes of the instances that are running and nothing else.
C24_StartupFailureTotal ==
    /\ \A i \in DOMAIN lifecycle :
         lifecycle[i].pc = "threw"
           => lifecycle[i].routes = <<>> /\ ~lifecycle[i].timer
    /\ Len(registredPrexises) = Cardinality(Claimants)
    /\ \A j \in 1..Len(registredPrexises) :
         \E i \in Claimants :
            lifecycle[i].options.adminServeBaseUrl = registredPrexises[j]

\* Instance 1 runs with the prefix "x"; setupLifecycle of instance 2, given
\* the same prefix, threw at the registry look-up.
C24_Witness ==
    /\ lifecycle[1].pc = "running"
    /\ registredPrexises = << <<120>> >>
    /\ lifecycle[2].pc = "threw"
    /\ lifecycle[2].error = "registered"
    /\ lifecycle[2].options.adminServeBaseUrl = <<120>>

====
